---------------------------- MODULE Spec2Model ----------------------------
(***************************************************************************)
(* Payment-provider resilience layer of chudeemeke/billpaymentapp:         *)
(*   - CircuitBreaker            src/src/utils/payment-provider.ts 178-245 *)
(*   - retryWithBackoff          src/src/utils/payment-provider.ts 256-290 *)
(*   - StripePaymentProvider     src/unnamed/part_000                      *)
(*   - generateIdempotencyKey    src/src/utils/payment-provider.ts 248-253 *)
(*   - PaymentService            src/src/infrastructure/payments/index.ts  *)
(*   - MockPaymentProvider       src/src/infrastructure/payments/mock.ts   *)
(*                                                                         *)
(* JavaScript runs one callback at a time: every action below is the code  *)
(* that runs between two suspension points (await) of one async call.      *)
(***************************************************************************)
EXTENDS Integers, Sequences, FiniteSets

\* ---------------------------------------------------------------- bounds
NumCallers == 2
MaxThreshold == 2
MaxTimeout == 1
MaxNow == 3
MaxAttempts == 3
MaxDelay == 3
MaxMultiplier == 2
MaxRequests == 6
NumChargers == 1
MaxCharges == 2
MaxStamp == 2

\* ------------------------------------------------------------- variables
VARIABLES
    threshold,        \* CircuitBreaker.threshold (constructor argument)
    timeout,          \* CircuitBreaker.timeout   (constructor argument)
    failures,         \* CircuitBreaker.failures
    lastFailureTime,  \* CircuitBreaker.lastFailureTime (Undefined when unset)
    state,            \* CircuitBreaker.state
    now,              \* Date.now()
    call,             \* the in-flight execute() call of each caller
    streak,           \* history: consecutive failed fn() calls
    failed,           \* history: failed fn() calls since the counter was last zero
    resetPending,     \* history: reset() was called and no execute() has started since
    \* retryWithBackoff(fn, policy)
    policy,           \* the RetryPolicy argument
    attempt,          \* loop variable `attempt`
    delay,            \* local `delay`
    lastError,        \* local `lastError`
    rpc,              \* where the call is: start, awaitFn, sleeping, done
    rOutcome,         \* what the call returned or threw
    attempts,         \* history: number of fn() invocations
    delays,           \* history: the delays handed to setTimeout, in order
    errs,             \* history: the errors fn() threw, in order
    \* StripePaymentProvider
    metrics,          \* StripePaymentProvider.metrics
    charge,           \* the charge() call of each caller (startTime is 0 outside a call)
    upstreamFailStreak, \* history: consecutive charge() calls whose upstream request failed
    upstream,         \* the upstream: the idempotency keys it has recorded a charge for
    \* generateIdempotencyKey(params)
    keyReq,           \* the two charge requests whose keys are compared
    keyOut,           \* the key derived for each of them (NoKey before the call)
    \* PaymentService
    providers,        \* PaymentService.providers: the registered types, in insertion order
    primaryProvider,  \* PaymentService.primaryProvider
    fallbackProvider, \* PaymentService.fallbackProvider ("undefined" when unset)
    healthy,          \* what healthCheck() of each provider answers at this moment
    experiment,       \* what the feature flags answer for a user of this deployment
    asyncCall,        \* the async call in flight: getHealthyProvider, getProviderForCurrency, getProviderMetrics
    syncCall,         \* the last synchronous call and what it returned or threw
    \* MockPaymentProvider
    shouldFail,       \* MockPaymentProvider.shouldFail
    transactions,     \* MockPaymentProvider.transactions, by the time stamp of the id
    refunds,          \* MockPaymentProvider.refunds, by the time stamp of the id
    mockCall,         \* the last call on the mock provider and its Result
    \* constructWebhookEvent
    webhookSecret,    \* whether process.env.STRIPE_WEBHOOK_SECRET is set
    hook              \* the last constructWebhookEvent call and how it settled

breakerVars == <<threshold, timeout, failures, lastFailureTime, state, now,
                 call, streak, failed, resetPending>>

retryVars == <<policy, attempt, delay, lastError, rpc, rOutcome, attempts, delays, errs>>

stripeVars == <<metrics, charge, upstreamFailStreak, upstream>>

keyVars == <<keyReq, keyOut>>

serviceVars == <<providers, primaryProvider, fallbackProvider, healthy, experiment,
                 asyncCall, syncCall>>

mockVars == <<shouldFail, transactions, refunds, mockCall>>

webhookVars == <<webhookSecret, hook>>

otherVars == <<keyVars, serviceVars, mockVars, webhookVars>>

vars == <<threshold, timeout, failures, lastFailureTime, state, now,
          call, streak, failed, resetPending,
          policy, attempt, delay, lastError, rpc, rOutcome, attempts, delays, errs,
          metrics, charge, upstreamFailStreak, upstream,
          keyReq, keyOut,
          providers, primaryProvider, fallbackProvider, healthy, experiment,
          asyncCall, syncCall,
          shouldFail, transactions, refunds, mockCall, webhookSecret, hook>>

Callers == 1..NumCallers

\* lastFailureTime?: number  -- the unset value
Undefined == -1

Min(a, b) == IF a <= b THEN a ELSE b

\* ------------------------------------------------------- CircuitBreaker
\* `this.lastFailureTime &&` : undefined and 0 are falsy
Truthy(t) == t # Undefined /\ t # 0

ShouldHalfOpen_ge(st, lft, t, to) == st = "open" /\ Truthy(lft) /\ t - lft >= to

\* lines 193-197: the open breaker is due for a probe
ShouldHalfOpen(st, lft, t, to) == st = "open" /\ Truthy(lft) /\ t - lft > to

\* lines 193-199: the state the call goes on with
EnterState(st, lft, t, to) == IF ShouldHalfOpen(st, lft, t, to) THEN "half-open" ELSE st

ShouldOpen_gt(f, th) == f > th

ShouldOpen_early(f, th) == f + 1 >= th

\* line 228
ShouldOpen(f, th) == f >= th

\* lines 206-211
CircuitOpenError ==
    [how |-> "throw", code |-> "circuit_breaker_open", provider |-> "system",
     retriable |-> TRUE]

NoOutcome == [how |-> "none", code |-> "none", provider |-> "none", retriable |-> FALSE]

Returned(v) == [how |-> "return", code |-> v, provider |-> "none", retriable |-> FALSE]

Thrown(c, p, r) == [how |-> "throw", code |-> c, provider |-> p, retriable |-> r]

IdleCall ==
    [pc |-> "idle", sawOpen |-> FALSE, admitted |-> "none", outcome |-> NoOutcome]

\* the call sites: the even callers pass a fallback, the odd ones none
\* (as executeWithMetrics does, src/unnamed/part_000 line 461)
HasFallback(c) == c % 2 = 0

\* execute(fn, fallback?) up to its first await: lines 192-215
ExecuteStart(c) ==
    /\ call[c].pc \in {"idle", "done"}
    /\ LET fb == HasFallback(c)
           st == EnterState(state, lastFailureTime, now, timeout)
           \* history: the call found the breaker open, timeout not elapsed
           so == state = "open" /\ ~(now - lastFailureTime > timeout)
       IN  /\ state' = st
           /\ call' = [call EXCEPT ![c] =
                 IF st = "open"
                 THEN IF fb
                      THEN [pc |-> "awaitFallback", sawOpen |-> so,
                            admitted |-> "none", outcome |-> NoOutcome]
                      ELSE [pc |-> "done", sawOpen |-> so,
                            admitted |-> "none", outcome |-> CircuitOpenError]
                 ELSE [pc |-> "awaitFn", sawOpen |-> so,
                       admitted |-> st, outcome |-> NoOutcome]]
    /\ resetPending' = FALSE
    /\ UNCHANGED <<threshold, timeout, failures, lastFailureTime, now, streak, failed>>
    /\ UNCHANGED <<retryVars, stripeVars, otherVars>>

ClosesOnSuccess_always(st) == TRUE

\* line 218: `if (this.state === 'half-open')`
ClosesOnSuccess(st) == st = "half-open"

\* the breaker's part of a resolved fn(): lines 217-221
BreakerSuccess ==
    /\ IF ClosesOnSuccess(state)
       THEN /\ state' = "closed"
            /\ failures' = 0
            /\ failed' = 0
       ELSE UNCHANGED <<state, failures, failed>>
    /\ streak' = 0
    /\ UNCHANGED <<threshold, timeout, lastFailureTime, now, resetPending>>

\* the breaker's part of a rejected fn(): lines 225-230
BreakerFailure ==
    /\ failures' = failures + 1
    /\ lastFailureTime' = now
    /\ state' = IF ShouldOpen(failures + 1, threshold) THEN "open" ELSE state
    /\ streak' = streak + 1
    /\ failed' = failed + 1
    /\ UNCHANGED <<threshold, timeout, now, resetPending>>

\* fn() resolved: lines 215-223
FnResolve(c) ==
    /\ call[c].pc = "awaitFn"
    /\ BreakerSuccess
    /\ call' = [call EXCEPT ![c].pc = "done", ![c].outcome = Returned("fn_result")]
    /\ UNCHANGED <<retryVars, stripeVars, otherVars>>

\* fn() rejected: lines 224-233
FnReject(c) ==
    /\ call[c].pc = "awaitFn"
    /\ BreakerFailure
    /\ call' = [call EXCEPT ![c].pc = "done",
                            ![c].outcome = Thrown("upstream_error", "upstream", FALSE)]
    /\ UNCHANGED <<retryVars, stripeVars, otherVars>>

\* `return fallback()` settles: line 204
FallbackSettle(c, ok) ==
    /\ call[c].pc = "awaitFallback"
    /\ call' = [call EXCEPT ![c].pc = "done",
                            ![c].outcome = IF ok THEN Returned("fallback_result")
                                           ELSE Thrown("fallback_error", "fallback", FALSE)]
    /\ UNCHANGED <<threshold, timeout, failures, lastFailureTime, state, now,
                   streak, failed, resetPending>>
    /\ UNCHANGED <<retryVars, stripeVars, otherVars>>

Reset_keepsCounter ==
    /\ failures' = failures
    /\ state' = "closed"
    /\ lastFailureTime' = Undefined
    /\ streak' = 0
    /\ failed' = 0
    /\ resetPending' = TRUE
    /\ UNCHANGED <<threshold, timeout, now, call>>
    /\ UNCHANGED <<retryVars, stripeVars, otherVars>>

\* reset(): lines 240-244
Reset ==
    /\ failures' = 0
    /\ state' = "closed"
    /\ lastFailureTime' = Undefined
    /\ streak' = 0
    /\ failed' = 0
    /\ resetPending' = TRUE
    /\ UNCHANGED <<threshold, timeout, now, call>>
    /\ UNCHANGED <<retryVars, stripeVars, otherVars>>

\* the clock advances
Tick ==
    /\ now < MaxNow
    /\ now' = now + 1
    /\ UNCHANGED <<threshold, timeout, failures, lastFailureTime, state, call,
                   streak, failed, resetPending>>
    /\ UNCHANGED <<retryVars, stripeVars, otherVars>>

\* constructor defaults: lines 184-185
DefaultThreshold == 5
DefaultTimeout == 60000

\* new CircuitBreaker(th, to): lines 179-186
BreakerFresh(th, to) ==
    /\ threshold = th
    /\ timeout = to
    /\ failures = 0
    /\ lastFailureTime = Undefined
    /\ state = "closed"
    /\ now = 1
    /\ call = [c \in Callers |-> IdleCall]
    /\ streak = 0
    /\ failed = 0
    /\ resetPending = FALSE


\* ----------------------------------------------------- retryWithBackoff
\* lines 164-175
defaultRetryPolicy ==
    [maxAttempts |-> 3, initialDelay |-> 1000, maxDelay |-> 10000,
     backoffMultiplier |-> 2,
     retryableErrors |-> {"network_error", "timeout", "rate_limit", "api_connection_error"}]

\* an error value: a PaymentProviderError with its code, another Error, or
\* the value of the unassigned `lastError`
PPE(code) == [kind |-> "PaymentProviderError", code |-> code]
OtherError == [kind |-> "Error", code |-> "none"]
UndefinedError == [kind |-> "undefined", code |-> "none"]

\* what fn() may throw
ErrorCodes == {"network_error", "card_declined"}
FnErrors == {PPE(c) : c \in ErrorCodes} \cup {OtherError}

\* the policies a caller may pass
Policies ==
    [maxAttempts : 0..MaxAttempts, initialDelay : 0..MaxDelay, maxDelay : 0..MaxDelay,
     backoffMultiplier : 0..MaxMultiplier, retryableErrors : SUBSET ErrorCodes]

NoResult == [how |-> "none", value |-> 0, error |-> UndefinedError]
ReturnValue(v) == [how |-> "return", value |-> v, error |-> UndefinedError]
Throw(e) == [how |-> "throw", value |-> 0, error |-> e]

LoopCondition_doWhile(a, p) == a = 1 \/ a <= p.maxAttempts

\* line 263: the loop condition
LoopCondition(a, p) == a <= p.maxAttempts

FailsImmediately_inverted(e, p) ==
    e.kind = "PaymentProviderError" /\ e.code \in p.retryableErrors

\* lines 270-274: a PaymentProviderError whose code is not retryable is rethrown
FailsImmediately(e, p) ==
    e.kind = "PaymentProviderError" /\ e.code \notin p.retryableErrors

IsLastAttempt_early(a, p) == a + 1 >= p.maxAttempts

\* line 277
IsLastAttempt(a, p) == a = p.maxAttempts

NextDelay_uncapped(d, p) == d * p.backoffMultiplier

\* line 285
NextDelay(d, p) == Min(d * p.backoffMultiplier, p.maxDelay)

\* the locals of a call that has not started
RetryFresh ==
    /\ attempt = 0
    /\ delay = 0
    /\ lastError = UndefinedError
    /\ rOutcome = NoResult
    /\ attempts = 0
    /\ delays = << >>
    /\ errs = << >>

\* the top of the loop with attempt = a: line 263, then line 265 or line 289
LoopTop(a, err) ==
    IF LoopCondition(a, policy)
    THEN /\ attempts' = attempts + 1
         /\ rpc' = "awaitFn"
         /\ rOutcome' = rOutcome
    ELSE /\ attempts' = attempts
         /\ rpc' = "done"
         /\ rOutcome' = Throw(err)

\* the call, up to its first await: lines 260-265
RetryStart ==
    /\ rpc = "start"
    /\ lastError' = UndefinedError
    /\ delay' = policy.initialDelay
    /\ attempt' = 1
    /\ LoopTop(1, UndefinedError)
    /\ UNCHANGED <<policy, delays, errs>>
    /\ UNCHANGED <<breakerVars, stripeVars, otherVars>>

\* fn() resolved: line 265
RetryFnResolve ==
    /\ rpc = "awaitFn"
    /\ rpc' = "done"
    /\ rOutcome' = ReturnValue(attempt)
    /\ UNCHANGED <<policy, attempt, delay, lastError, attempts, delays, errs>>
    /\ UNCHANGED <<breakerVars, stripeVars, otherVars>>

\* fn() rejected with e: lines 266-282
RetryFnReject(e) ==
    /\ rpc = "awaitFn"
    /\ lastError' = e
    /\ errs' = Append(errs, e)
    /\ IF FailsImmediately(e, policy)
       THEN /\ rpc' = "done"
            /\ rOutcome' = Throw(e)
            /\ delays' = delays
       ELSE IF IsLastAttempt(attempt, policy)
            THEN /\ rpc' = "done"
                 /\ rOutcome' = Throw(e)
                 /\ delays' = delays
            ELSE /\ rpc' = "sleeping"
                 /\ rOutcome' = rOutcome
                 /\ delays' = Append(delays, delay)
    /\ UNCHANGED <<policy, attempt, delay, attempts>>
    /\ UNCHANGED <<breakerVars, stripeVars, otherVars>>

\* the timer fires: lines 282-285, then the loop's attempt++ and its top
RetryWake ==
    /\ rpc = "sleeping"
    /\ delay' = NextDelay(delay, policy)
    /\ attempt' = attempt + 1
    /\ LoopTop(attempt + 1, lastError)
    /\ UNCHANGED <<policy, lastError, delays, errs>>
    /\ UNCHANGED <<breakerVars, stripeVars, otherVars>>

\* ------------------------------------------------ generateIdempotencyKey
\* A params object is the values of its fields together with `order`, the
\* order in which its own properties were set: JSON.stringify walks the
\* properties in that order.  A field whose value is undefined holds "none".

\* a string that was written out, and the hex digest of a text
Literal(s) == [text |-> s, digestOf |-> << >>]
Sha256Hex(json) == [text |-> "sha256", digestOf |-> json]
NoKey == Literal("none")

\* the member `"f": value` of the JSON text of p (amount is a Money object)
Member(p, f) ==
    IF f = "amount" THEN [name |-> f, num |-> p.amount, str |-> p.currency]
    ELSE IF f = "customerId" THEN [name |-> f, num |-> 0, str |-> p.customerId]
    ELSE [name |-> f, num |-> 0, str |-> p.idempotencyKey]

\* JSON.stringify leaves out a property whose value is undefined
IsUndefinedField(p, f) == f = "idempotencyKey" /\ p.idempotencyKey = "none"

\* JSON.stringify(params): the members in property order
JSONStringify(p) ==
    LET present == SelectSeq(p.order, LAMBDA f : ~IsUndefinedField(p, f))
    IN  [i \in 1..Len(present) |-> Member(p, present[i])]

\* generateIdempotencyKey: payment-provider.ts lines 248-253
generateIdempotencyKey(p) == Sha256Hex(JSONStringify(p))

\* the requests compared: every amount, currency and customer below, the
\* fields set in either order
KeyAmounts == {1000, 2000}
KeyCurrencies == {"GBP", "USD"}
KeyCustomers == {"cus_1", "cus_2"}
KeyOrders == {<<"amount", "customerId">>, <<"customerId", "amount">>}
KeyRequests ==
    [defined : {TRUE}, amount : KeyAmounts, currency : KeyCurrencies,
     customerId : KeyCustomers, idempotencyKey : {"none"}, order : KeyOrders]
KeyPair == {1, 2}

\* generateIdempotencyKey(keyReq[i])
DeriveKey(i) ==
    /\ keyOut[i] = NoKey
    /\ keyOut' = [keyOut EXCEPT ![i] = generateIdempotencyKey(keyReq[i])]
    /\ UNCHANGED keyReq
    /\ UNCHANGED <<breakerVars, retryVars, stripeVars, serviceVars, mockVars, webhookVars>>

\* ------------------------------------------------- StripePaymentProvider
\* new CircuitBreaker(5, 60000): src/unnamed/part_000 line 49
StripeThreshold == 5
StripeTimeout == 60000

\* the clock of the provider runs advances by half a breaker timeout
StripeTickMs == StripeTimeout \div 2

\* ChargeParams: a charge of 1000 GBP for cus_1 without a key of its own, and
\* the value that is no ChargeParams at all (undefined at run time)
GoodParams ==
    [defined |-> TRUE, amount |-> 1000, currency |-> "GBP", customerId |-> "cus_1",
     idempotencyKey |-> "none", order |-> <<"amount", "customerId">>]
NoParams ==
    [defined |-> FALSE, amount |-> 0, currency |-> "none", customerId |-> "none",
     idempotencyKey |-> "none", order |-> << >>]
ChargeInputs == {GoodParams, NoParams}

\* charges with and without a key of the caller's: no key, the empty string,
\* a key
CallerKeys == {"none", "", "key_1"}
KeyedParams(k) ==
    [GoodParams EXCEPT !.idempotencyKey = k,
                       !.order = IF k = "none" THEN @ ELSE Append(@, "idempotencyKey")]
KeyedInputs == {KeyedParams(k) : k \in CallerKeys}

\* the callers of charge()
Chargers == 1..NumChargers

\* what stripe.paymentIntents.create does: the intent, or a Stripe error
UpstreamResponses == {"succeeded", "api_connection_error", "card_declined"}
Transient == "api_connection_error"

\* the Stripe error of a failed request: its type and its code (a connection
\* error carries no code)
StripeErrorOf(resp) ==
    IF resp = "api_connection_error"
    THEN [type |-> "api_connection_error", code |-> "undefined"]
    ELSE [type |-> "card_error", code |-> resp]

\* mapStripeError: part_000 lines 546-559
MapStripeError(e) ==
    [kind |-> "PaymentProviderError",
     code |-> IF e.code = "undefined" THEN "unknown_error" ELSE e.code,
     provider |-> "stripe",
     retriable |-> e.type \in {"api_connection_error", "rate_limit_error", "idempotency_error"}]

NoError == [kind |-> "none", code |-> "none", provider |-> "none", retriable |-> FALSE]
NoTransaction == [status |-> "none", amount |-> 0, currency |-> "none", customerId |-> "none"]

\* mapStripePaymentIntent of the intent created for p: part_000 lines 492-510
MapStripePaymentIntent(p) ==
    [status |-> "succeeded", amount |-> p.amount, currency |-> p.currency,
     customerId |-> p.customerId]

\* Ok and Err: src/src/utils/errors.ts lines 6-14
Ok(v) == [ok |-> TRUE, value |-> v, error |-> NoError]
Err(e) == [ok |-> FALSE, value |-> NoTransaction, error |-> e]
NoResultYet == [ok |-> FALSE, value |-> NoTransaction, error |-> NoError]

\* how a charge() promise settles: fulfilled with a Result, or rejected
Fulfilled(r) == [how |-> "return", result |-> r, error |-> NoError]
Rejected(e) == [how |-> "throw", result |-> NoResultYet, error |-> e]
Pending == [how |-> "none", result |-> NoResultYet, error |-> NoError]

\* the error CircuitBreaker.execute throws when open: payment-provider.ts 206-211
StripeCircuitOpen ==
    [kind |-> "PaymentProviderError", code |-> CircuitOpenError.code,
     provider |-> CircuitOpenError.provider, retriable |-> CircuitOpenError.retriable]

\* the TypeError of `params.idempotencyKey` on an undefined params: line 196
ParamsTypeError == [kind |-> "TypeError", code |-> "none", provider |-> "none",
                    retriable |-> FALSE]

\* the attempt handed to retryWithBackoff, part_000 lines 198-229: the request
\* is made inside try, and the catch at line 217 returns Err(mapStripeError):
\* the attempt always resolves with a Result and never rejects
ChargeAttempt(p, resp) ==
    IF resp = "succeeded"
    THEN Ok(MapStripePaymentIntent(p))
    ELSE Err(MapStripeError(StripeErrorOf(resp)))

\* a charge() call: where it is, its arguments and locals (key is the const
\* idempotencyKey of line 196, attempt the loop variable of retryWithBackoff)
\* and, as history, the keys of the create requests it issued, the answers it
\* got and the number of charges the upstream recorded for it
IdleCharge ==
    [pc |-> "idle", params |-> GoodParams, startTime |-> 0, key |-> NoKey,
     attempt |-> 0, requests |-> << >>, responses |-> << >>, recorded |-> 0,
     outcome |-> Pending]

\* line 196: params.idempotencyKey || generateIdempotencyKey(params); the
\* empty string is falsy, like undefined
ChosenKey_derived(p) == generateIdempotencyKey(p)

ChosenKey(p) ==
    IF p.idempotencyKey \notin {"none", ""}
    THEN Literal(p.idempotencyKey)
    ELSE generateIdempotencyKey(p)

\* the idempotencyKey option of the create request, lines 212-214: the const
\* captured by the closure, the same for every attempt
RequestKey_perAttempt(k, a) == [k EXCEPT !.text = IF a = 1 THEN @ ELSE "retry"]

RequestKey(k, a) == k

\* an upstream that deduplicates by key records a charge for a key once
UpstreamCharges(ledger, k) == ledger \cup {k}

\* executeWithMetrics' finally: part_000 line 468
AddLatency(m, start) == [m EXCEPT !.totalLatency = @ + (now - start)]

\* charge(params) up to its first await: executeWithMetrics lines 457-463,
\* CircuitBreaker.execute lines 192-215, charge lines 196-200
ChargeStart(c, p) ==
    /\ charge[c].pc \in {"idle", "done"}
    /\ metrics.totalRequests < MaxRequests
    /\ LET st == EnterState(state, lastFailureTime, now, timeout)
           m1 == [metrics EXCEPT !.totalRequests = @ + 1]
           k == IF p.defined THEN ChosenKey(p) ELSE NoKey
           begun == [pc |-> "idle", params |-> p, startTime |-> now, key |-> NoKey,
                     attempt |-> 0, requests |-> << >>, responses |-> << >>,
                     recorded |-> 0, outcome |-> Pending]
       IN  /\ state' = st
           /\ IF st = "open"
              THEN \* line 206 throws; the finally of line 467 runs
                   /\ metrics' = AddLatency(m1, now)
                   /\ charge' = [charge EXCEPT ![c] =
                         [begun EXCEPT !.pc = "done", !.startTime = 0,
                                       !.outcome = Rejected(StripeCircuitOpen)]]
              ELSE /\ metrics' = m1
                   /\ charge' = [charge EXCEPT ![c] =
                         IF p.defined
                         THEN [begun EXCEPT !.pc = "awaitUpstream", !.key = k,
                                            !.attempt = 1,
                                            !.requests = <<RequestKey(k, 1)>>]
                         ELSE [begun EXCEPT !.pc = "rejecting"]]
    /\ upstreamFailStreak' =
          IF EnterState(state, lastFailureTime, now, timeout) = "open" \/ ~p.defined
          THEN 0 ELSE upstreamFailStreak
    /\ resetPending' = FALSE
    /\ UNCHANGED <<threshold, timeout, failures, lastFailureTime, now, call, streak,
                   failed, upstream>>
    /\ UNCHANGED <<retryVars, otherVars>>

\* the upstream answers the request: charge lines 200-228, retryWithBackoff
\* line 265 (the attempt resolved: its Result is returned), measureAsync,
\* CircuitBreaker.execute lines 215-223, executeWithMetrics lines 465-468
UpstreamRespond(c, resp) ==
    /\ charge[c].pc = "awaitUpstream"
    /\ BreakerSuccess
    /\ metrics' = AddLatency([metrics EXCEPT !.successfulRequests = @ + 1],
                             charge[c].startTime)
    /\ LET sent == charge[c].requests[Len(charge[c].requests)]
           charged == resp = "succeeded"
       IN  /\ charge' = [charge EXCEPT
                 ![c].pc = "done",
                 ![c].startTime = 0,
                 ![c].responses = Append(@, resp),
                 ![c].recorded = IF charged /\ sent \notin upstream THEN @ + 1 ELSE @,
                 ![c].outcome = Fulfilled(ChargeAttempt(charge[c].params, resp))]
           /\ upstream' = IF charged THEN UpstreamCharges(upstream, sent) ELSE upstream
    /\ upstreamFailStreak' =
          IF resp = "succeeded" THEN 0 ELSE Min(upstreamFailStreak + 1, threshold)
    /\ UNCHANGED call
    /\ UNCHANGED <<retryVars, otherVars>>

\* the TypeError of `error.type` on an undefined error: line 554
MapTypeError == [kind |-> "TypeError", code |-> "none", provider |-> "none",
                 retriable |-> FALSE]

\* what retryWithBackoff sees of it: not a PaymentProviderError (line 270)
AsRetryError(e) ==
    IF e.kind = "PaymentProviderError" THEN PPE(e.code) ELSE OtherError

FailuresAfterRetry_counted(f) == f + 1

\* the breaker's counter after an attempt that is retried: the rejection is
\* caught by retryWithBackoff (payment-provider.ts lines 266-282) and does not
\* reach the catch of CircuitBreaker.execute
FailuresAfterRetry(f) == f

\* the create request rejects with undefined, after the upstream did or did
\* not record the charge: mapStripeError (line 218) throws a TypeError out of
\* the catch block, so the attempt rejects.  retryWithBackoff lines 266-282:
\* a last attempt rethrows, and the rejection reaches CircuitBreaker.execute
\* lines 224-233 and the finally of executeWithMetrics; any other attempt
\* goes to sleep
AttemptRejects(c, charged) ==
    /\ charge[c].pc = "awaitUpstream"
    /\ LET sent == charge[c].requests[Len(charge[c].requests)]
           heard == [charge EXCEPT
                       ![c].responses = Append(@, "undefined"),
                       ![c].recorded = IF charged /\ sent \notin upstream
                                       THEN @ + 1 ELSE @]
       IN  /\ upstream' = IF charged THEN UpstreamCharges(upstream, sent) ELSE upstream
           /\ IF \/ FailsImmediately(AsRetryError(MapTypeError), defaultRetryPolicy)
                 \/ IsLastAttempt(charge[c].attempt, defaultRetryPolicy)
              THEN /\ BreakerFailure
                   /\ metrics' = AddLatency(metrics, charge[c].startTime)
                   /\ charge' = [heard EXCEPT ![c].pc = "done", ![c].startTime = 0,
                                              ![c].outcome = Rejected(MapTypeError)]
                   /\ upstreamFailStreak' = Min(upstreamFailStreak + 1, threshold)
              ELSE /\ charge' = [heard EXCEPT ![c].pc = "sleeping"]
                   /\ failures' = FailuresAfterRetry(failures)
                   /\ UNCHANGED <<threshold, timeout, lastFailureTime, state,
                                  now, streak, failed, resetPending, metrics,
                                  upstreamFailStreak>>
    /\ UNCHANGED call
    /\ UNCHANGED <<retryVars, otherVars>>

\* the timer of line 282 fires: the next attempt issues its create request
\* with the key of the closure, lines 263-265 and 200-215
ChargeRetryWake(c) ==
    /\ charge[c].pc = "sleeping"
    /\ charge' = [charge EXCEPT
          ![c].pc = "awaitUpstream",
          ![c].attempt = @ + 1,
          ![c].requests = Append(@, RequestKey(charge[c].key, charge[c].attempt + 1))]
    /\ UNCHANGED <<metrics, upstreamFailStreak, upstream>>
    /\ UNCHANGED <<breakerVars, retryVars, otherVars>>

\* line 196 threw: the rejection reaches CircuitBreaker.execute lines 224-233
\* and the finally of executeWithMetrics, line 468
ChargeThrows(c) ==
    /\ charge[c].pc = "rejecting"
    /\ BreakerFailure
    /\ metrics' = AddLatency(metrics, charge[c].startTime)
    /\ charge' = [charge EXCEPT ![c].pc = "done", ![c].startTime = 0,
                                ![c].outcome = Rejected(ParamsTypeError)]
    /\ UNCHANGED <<call, upstreamFailStreak, upstream>>
    /\ UNCHANGED <<retryVars, otherVars>>

\* the clock advances
StripeTick ==
    /\ now - 1 < MaxNow * StripeTickMs
    /\ now' = now + StripeTickMs
    /\ UNCHANGED <<threshold, timeout, failures, lastFailureTime, state, call,
                   streak, failed, resetPending>>
    /\ UNCHANGED <<retryVars, stripeVars, otherVars>>

\* new StripePaymentProvider(): part_000 lines 31-35
StripeFresh ==
    /\ metrics = [totalRequests |-> 0, successfulRequests |-> 0, totalLatency |-> 0]
    /\ charge = [c \in Chargers |-> IdleCharge]
    /\ upstreamFailStreak = 0
    /\ upstream = {}

\* --------------------------------------------------------- PaymentService
\* the provider types that have an implementation, and the types a caller can name
ProviderTypes == {"stripe", "mock"}
PaymentProviderType == {"stripe", "mock", "square", "paypal"}

\* supportedCurrencies of both providers: part_000 line 26, mock.ts line 20
SupportedCurrencies(t) == {"GBP", "USD", "EUR"}
Supports_any(t, cur) == TRUE

\* provider.supportedCurrencies.includes(currency): index.ts line 90
Supports(t, cur) == cur \in SupportedCurrencies(t)

Registered_any(t) == TRUE

\* this.providers.has(type)
Registered(t) == \E i \in 1..Len(providers) : providers[i] = t

\* getCurrentUserId: index.ts lines 159-163
getCurrentUserId == "undefined"

\* what a call returned (a provider) or threw
NotSettled == [how |-> "none", provider |-> "none"]
ReturnProvider(t) == [how |-> "return", provider |-> t]
ThrowError(msg) == [how |-> "throw", provider |-> msg]

\* initializeProviders, index.ts lines 19-50, for NODE_ENV env and a
\* STRIPE_SECRET_KEY that is set or not: the registry and the primary
RegistryOf(env, key) ==
    IF env = "test" THEN <<"mock">>
    ELSE IF env = "development"
         THEN IF key THEN <<"stripe", "mock">> ELSE <<"mock">>
         ELSE IF key THEN <<"stripe">> ELSE << >>
PrimaryOf(env, key) ==
    IF env = "test" THEN "mock"
    ELSE IF env = "development" /\ ~key THEN "mock" ELSE "stripe"

Environments == {"test", "development", "production"}

\* getProvider(type): index.ts lines 52-85
GetProvider(type) ==
    LET userId == getCurrentUserId
    IN  IF /\ userId # "undefined"
           /\ experiment.enabled
           /\ experiment.variant # "control"
           /\ Registered(experiment.variant)
        THEN ReturnProvider(experiment.variant)
        ELSE IF type # "undefined" /\ Registered(type)
        THEN ReturnProvider(type)
        ELSE IF Registered(primaryProvider)
        THEN ReturnProvider(primaryProvider)
        ELSE IF fallbackProvider # "undefined" /\ Registered(fallbackProvider)
        THEN ReturnProvider(fallbackProvider)
        ELSE ThrowError("No payment provider available")

IdleAsync ==
    [op |-> "none", pc |-> "idle", currency |-> "none", primary |-> "none", idx |-> 0,
     checking |-> "none", checks |-> << >>, outcome |-> NotSettled]

NoSync == [op |-> "none", arg |-> "none", outcome |-> NotSettled]

\* a synchronous call can be made at any moment, an async one when the
\* previous one has settled
AsyncFree == asyncCall.pc \in {"idle", "done"}

CallGetProvider(type) ==
    /\ syncCall' = [op |-> "getProvider", arg |-> type, outcome |-> GetProvider(type)]
    /\ UNCHANGED <<providers, primaryProvider, fallbackProvider, healthy, experiment,
                   asyncCall>>
    /\ UNCHANGED <<breakerVars, retryVars, stripeVars, keyVars, mockVars, webhookVars>>

\* setPrimaryProvider: index.ts lines 122-128
SetPrimaryProvider(type) ==
    /\ IF ~Registered(type)
       THEN /\ syncCall' = [op |-> "setPrimaryProvider", arg |-> type,
                            outcome |-> ThrowError("not initialized")]
            /\ UNCHANGED primaryProvider
       ELSE /\ primaryProvider' = type
            /\ syncCall' = [op |-> "setPrimaryProvider", arg |-> type,
                            outcome |-> ReturnProvider("none")]
    /\ UNCHANGED <<providers, fallbackProvider, healthy, experiment, asyncCall>>
    /\ UNCHANGED <<breakerVars, retryVars, stripeVars, keyVars, mockVars, webhookVars>>

\* setFallbackProvider: index.ts lines 130-135
SetFallbackProvider(type) ==
    /\ IF ~Registered(type)
       THEN /\ syncCall' = [op |-> "setFallbackProvider", arg |-> type,
                            outcome |-> ThrowError("not initialized")]
            /\ UNCHANGED fallbackProvider
       ELSE /\ fallbackProvider' = type
            /\ syncCall' = [op |-> "setFallbackProvider", arg |-> type,
                            outcome |-> ReturnProvider("none")]
    /\ UNCHANGED <<providers, primaryProvider, healthy, experiment, asyncCall>>
    /\ UNCHANGED <<breakerVars, retryVars, stripeVars, keyVars, mockVars, webhookVars>>

\* the first position from i on whose provider the loop of getHealthyProvider
\* health-checks (line 110: type !== this.primaryProvider, read at each
\* iteration), 0 when the loop runs out
NextOther(i) ==
    LET rest == {j \in i..Len(providers) : providers[j] # primaryProvider}
    IN  IF rest = {} THEN 0 ELSE CHOOSE j \in rest : \A k \in rest : j <= k

\* the loop of getHealthyProvider from position i: lines 109-119
ScanOthers(ac, i) ==
    LET j == NextOther(i)
    IN  IF j = 0
        THEN [ac EXCEPT !.pc = "done", !.idx = 0, !.checking = "none",
                        !.outcome = ThrowError("No healthy payment providers available")]
        ELSE [ac EXCEPT !.pc = "awaitOther", !.idx = j, !.checking = providers[j]]

\* the failover branch of lines 110-116 logs and returns: the primary stays
KeepPrimary_promoted(primary, alternative) == alternative

KeepPrimary(primary, alternative) == primary

\* getHealthyProvider up to its first await: lines 103-110
GetHealthyProviderStart ==
    /\ AsyncFree
    /\ LET begun == [IdleAsync EXCEPT !.op = "getHealthyProvider",
                                      !.primary = primaryProvider]
       IN  asyncCall' =
              IF Registered(primaryProvider)
              THEN [begun EXCEPT !.pc = "awaitPrimary", !.checking = primaryProvider]
              ELSE ScanOthers(begun, 1)
    /\ UNCHANGED <<providers, primaryProvider, fallbackProvider, healthy, experiment,
                   syncCall>>
    /\ UNCHANGED <<breakerVars, retryVars, stripeVars, keyVars, mockVars, webhookVars>>

\* primary.healthCheck() resolved: lines 104-110
PrimaryHealthAnswer ==
    /\ asyncCall.pc = "awaitPrimary"
    /\ LET t == asyncCall.checking
           ok == healthy[t]
           heard == [asyncCall EXCEPT !.checks = Append(@, <<t, ok>>)]
       IN  asyncCall' =
              IF ok
              THEN [heard EXCEPT !.pc = "done", !.checking = "none",
                                 !.outcome = ReturnProvider(t)]
              ELSE ScanOthers(heard, 1)
    /\ UNCHANGED <<providers, primaryProvider, fallbackProvider, healthy, experiment,
                   syncCall>>
    /\ UNCHANGED <<breakerVars, retryVars, stripeVars, keyVars, mockVars, webhookVars>>

\* provider.healthCheck() of the loop resolved: lines 110-117
OtherHealthAnswer ==
    /\ asyncCall.pc = "awaitOther"
    /\ LET t == asyncCall.checking
           ok == healthy[t]
           heard == [asyncCall EXCEPT !.checks = Append(@, <<t, ok>>)]
       IN  /\ asyncCall' =
                 IF ok
                 THEN [heard EXCEPT !.pc = "done", !.idx = 0, !.checking = "none",
                                    !.outcome = ReturnProvider(t)]
                 ELSE ScanOthers(heard, asyncCall.idx + 1)
           /\ primaryProvider' = IF ok THEN KeepPrimary(primaryProvider, t)
                                 ELSE primaryProvider
    /\ UNCHANGED <<providers, fallbackProvider, healthy, experiment, syncCall>>
    /\ UNCHANGED <<breakerVars, retryVars, stripeVars, keyVars, mockVars, webhookVars>>

\* the first position from i on whose provider supports cur (line 90), 0
\* when the loop runs out
NextSupporting(i, cur) ==
    LET rest == {j \in i..Len(providers) : Supports(providers[j], cur)}
    IN  IF rest = {} THEN 0 ELSE CHOOSE j \in rest : \A k \in rest : j <= k

\* the loop of getProviderForCurrency from position i: lines 89-98
ScanCurrency(ac, i) ==
    LET j == NextSupporting(i, ac.currency)
    IN  IF j = 0
        THEN [ac EXCEPT !.pc = "done", !.idx = 0, !.checking = "none",
                        !.outcome = ThrowError("No healthy provider found for currency")]
        ELSE [ac EXCEPT !.pc = "awaitCurrency", !.idx = j, !.checking = providers[j]]

\* the currencies asked for: one both providers list, one neither lists
Currencies == {"GBP", "JPY"}

\* getProviderForCurrency up to its first await: lines 89-91
GetProviderForCurrencyStart(cur) ==
    /\ AsyncFree
    /\ asyncCall' = ScanCurrency([IdleAsync EXCEPT !.op = "getProviderForCurrency",
                                                   !.currency = cur], 1)
    /\ UNCHANGED <<providers, primaryProvider, fallbackProvider, healthy, experiment,
                   syncCall>>
    /\ UNCHANGED <<breakerVars, retryVars, stripeVars, keyVars, mockVars, webhookVars>>

\* provider.healthCheck() resolved: lines 91-96
CurrencyHealthAnswer ==
    /\ asyncCall.pc = "awaitCurrency"
    /\ LET t == asyncCall.checking
           ok == healthy[t]
           heard == [asyncCall EXCEPT !.checks = Append(@, <<t, ok>>)]
       IN  asyncCall' =
              IF ok
              THEN [heard EXCEPT !.pc = "done", !.idx = 0, !.checking = "none",
                                 !.outcome = ReturnProvider(t)]
              ELSE ScanCurrency(heard, asyncCall.idx + 1)
    /\ UNCHANGED <<providers, primaryProvider, fallbackProvider, healthy, experiment,
                   syncCall>>
    /\ UNCHANGED <<breakerVars, retryVars, stripeVars, keyVars, mockVars, webhookVars>>

\* the loop of getProviderMetrics at position i: lines 149-155
MetricsLoop(ac, i) ==
    IF i > Len(providers)
    THEN [ac EXCEPT !.pc = "done", !.idx = 0, !.checking = "none",
                    !.outcome = ReturnProvider("results")]
    ELSE [ac EXCEPT !.pc = "awaitMetricsHealth", !.idx = i, !.checking = providers[i]]

\* getProviderMetrics up to its first await: lines 147-150
GetProviderMetricsStart ==
    /\ AsyncFree
    /\ asyncCall' = MetricsLoop([IdleAsync EXCEPT !.op = "getProviderMetrics"], 1)
    /\ UNCHANGED <<providers, primaryProvider, fallbackProvider, healthy, experiment,
                   syncCall>>
    /\ UNCHANGED <<breakerVars, retryVars, stripeVars, keyVars, mockVars, webhookVars>>

\* provider.healthCheck() resolved, provider.getMetrics() is called: lines 150-151
MetricsHealthAnswer ==
    /\ asyncCall.pc = "awaitMetricsHealth"
    /\ asyncCall' = [asyncCall EXCEPT
          !.pc = "awaitMetrics",
          !.checks = Append(@, <<asyncCall.checking, healthy[asyncCall.checking]>>)]
    /\ UNCHANGED <<providers, primaryProvider, fallbackProvider, healthy, experiment,
                   syncCall>>
    /\ UNCHANGED <<breakerVars, retryVars, stripeVars, keyVars, mockVars, webhookVars>>

\* provider.getMetrics() resolved: lines 151-155
MetricsAnswer ==
    /\ asyncCall.pc = "awaitMetrics"
    /\ asyncCall' = MetricsLoop(asyncCall, asyncCall.idx + 1)
    /\ UNCHANGED <<providers, primaryProvider, fallbackProvider, healthy, experiment,
                   syncCall>>
    /\ UNCHANGED <<breakerVars, retryVars, stripeVars, keyVars, mockVars, webhookVars>>

\* the upstream of a registered provider goes down or comes back
HealthChange(t) ==
    /\ Registered(t)
    /\ healthy' = [healthy EXCEPT ![t] = ~@]
    /\ UNCHANGED <<providers, primaryProvider, fallbackProvider, experiment, asyncCall,
                   syncCall>>
    /\ UNCHANGED <<breakerVars, retryVars, stripeVars, keyVars, mockVars, webhookVars>>

\* new PaymentService() in environment env: index.ts lines 11-17
ServiceFresh(env, key) ==
    /\ providers = RegistryOf(env, key)
    /\ primaryProvider = PrimaryOf(env, key)
    /\ fallbackProvider = "undefined"
    /\ asyncCall = IdleAsync
    /\ syncCall = NoSync

\* the service of the test environment, all upstreams up, no experiment
ServiceIdle ==
    /\ ServiceFresh("test", FALSE)
    /\ healthy = [t \in ProviderTypes |-> TRUE]
    /\ experiment = [enabled |-> FALSE, variant |-> "control"]

\* ----------------------------------------------------- MockPaymentProvider
\* every operation awaits simulateLatency() first and then runs to its end:
\* one action each.  An id is `pi_mock_${Date.now()}` or `re_mock_${Date.now()}`.
Stamps == 1..MaxStamp

NoSuchTransaction == [status |-> "absent", captured |-> FALSE, customerId |-> "none"]

\* the customers charged
MockCustomers == {"cus_1", "cus_2"}
NoSuchRefund == [transactionId |-> 0, status |-> "absent", transactionStatus |-> "absent"]

\* a Result of the mock provider: Ok, or Err with a code
MockOk == [ok |-> TRUE, code |-> "none"]
MockErr(code) == [ok |-> FALSE, code |-> code]

\* the last call: the operation, the id it was given, the status the
\* transaction of that id had when the call ran, and the Result
MockCalled(op, id, result) ==
    [op |-> op, id |-> id,
     transactionStatus |-> IF id \in Stamps THEN transactions[id].status ELSE "absent",
     result |-> result]
NoMockCall == [op |-> "none", id |-> 0, transactionStatus |-> "absent", result |-> MockOk]

\* checkFailure: mock.ts lines 49-61 (failureCode is left at its default)
CheckFailure == IF shouldFail THEN MockErr("test_failure") ELSE MockOk

\* charge: mock.ts lines 193-213
MockCharge(captureImmediately, customerId) ==
    /\ IF shouldFail
       THEN /\ mockCall' = MockCalled("charge", 0, CheckFailure)
            /\ UNCHANGED transactions
       ELSE /\ transactions' = [transactions EXCEPT ![now] =
                  [status |-> "succeeded", captured |-> captureImmediately,
                   customerId |-> customerId]]
            /\ mockCall' = [MockCalled("charge", now, MockOk) EXCEPT
                               !.transactionStatus = "succeeded"]
    /\ UNCHANGED <<shouldFail, refunds>>
    /\ UNCHANGED <<breakerVars, retryVars, stripeVars, keyVars, serviceVars, webhookVars>>

\* authorize: mock.ts lines 215-217
MockAuthorize(customerId) == MockCharge(FALSE, customerId)

\* capture: mock.ts lines 219-242
MockCapture(id) ==
    /\ mockCall' = MockCalled("capture", id,
          IF shouldFail THEN CheckFailure
          ELSE IF transactions[id] = NoSuchTransaction THEN MockErr("transaction_not_found")
          ELSE MockOk)
    /\ transactions' =
          IF shouldFail \/ transactions[id] = NoSuchTransaction THEN transactions
          ELSE [transactions EXCEPT ![id].status = "succeeded", ![id].captured = TRUE]
    /\ UNCHANGED <<shouldFail, refunds>>
    /\ UNCHANGED <<breakerVars, retryVars, stripeVars, keyVars, serviceVars, webhookVars>>

\* void: mock.ts lines 244-254
MockVoid(id) ==
    /\ mockCall' = MockCalled("void", id, CheckFailure)
    /\ transactions' =
          IF shouldFail \/ transactions[id] = NoSuchTransaction THEN transactions
          ELSE [transactions EXCEPT ![id].status = "cancelled"]
    /\ UNCHANGED <<shouldFail, refunds>>
    /\ UNCHANGED <<breakerVars, retryVars, stripeVars, keyVars, serviceVars, webhookVars>>

\* refund: mock.ts lines 256-284
MockRefund(id) ==
    /\ mockCall' = MockCalled("refund", id,
          IF shouldFail THEN CheckFailure
          ELSE IF transactions[id] = NoSuchTransaction THEN MockErr("transaction_not_found")
          ELSE MockOk)
    /\ refunds' =
          IF shouldFail \/ transactions[id] = NoSuchTransaction THEN refunds
          ELSE [refunds EXCEPT ![now] =
                  [transactionId |-> id, status |-> "succeeded",
                   transactionStatus |-> transactions[id].status]]
    /\ UNCHANGED <<shouldFail, transactions>>
    /\ UNCHANGED <<breakerVars, retryVars, stripeVars, keyVars, serviceVars, webhookVars>>

\* the clock of the mock provider advances by a millisecond
MockTick ==
    /\ now < MaxStamp
    /\ now' = now + 1
    /\ UNCHANGED <<threshold, timeout, failures, lastFailureTime, state, call,
                   streak, failed, resetPending>>
    /\ UNCHANGED <<retryVars, stripeVars, otherVars>>

\* setFailure: mock.ts lines 404-407
SetFailure(b) ==
    /\ shouldFail' = b
    /\ UNCHANGED <<transactions, refunds, mockCall>>
    /\ UNCHANGED <<breakerVars, retryVars, stripeVars, keyVars, serviceVars, webhookVars>>

\* ----------------------------------------------------- constructWebhookEvent
\* the payloads: an event, an event without a type, text that is no JSON, no
\* text; the signatures: the one that verifies, one that does not, none
Payloads == {"{type}", "{}", "not json", ""}
ParsesAsJSON(payload) == payload \in {"{type}", "{}"}
Signatures == {"valid_signature", "forged", ""}

WebhookOk(type) == [how |-> "return", ok |-> TRUE, code |-> "none", type |-> type]
WebhookErr(code) == [how |-> "return", ok |-> FALSE, code |-> code, type |-> "none"]
WebhookThrows == [how |-> "throw", ok |-> FALSE, code |-> "SyntaxError", type |-> "none"]

\* MockPaymentProvider.constructWebhookEvent: mock.ts lines 343-368
MockConstructWebhookEvent(payload, signature) ==
    IF signature # "valid_signature"
    THEN WebhookErr("webhook_signature_invalid")
    ELSE IF ~ParsesAsJSON(payload) THEN WebhookThrows
    ELSE WebhookOk(IF payload = "{type}" THEN "type" ELSE "payment.succeeded")

\* StripePaymentProvider.constructWebhookEvent: part_000 lines 341-379;
\* stripe.webhooks.constructEvent throws unless the signature verifies the
\* payload under the secret and the payload parses
StripeConstructWebhookEvent(payload, signature, secret) ==
    IF ~secret
    THEN WebhookErr("webhook_config_error")
    ELSE IF signature # "valid_signature" \/ ~ParsesAsJSON(payload)
    THEN WebhookErr("webhook_signature_invalid")
    ELSE WebhookOk(IF payload = "{type}" THEN "type" ELSE "undefined")

NoHook == [provider |-> "none", payload |-> "", signature |-> "", outcome |-> WebhookOk("none")]

ConstructWebhookEvent(provider, payload, signature) ==
    /\ hook' = [provider |-> provider, payload |-> payload, signature |-> signature,
                outcome |-> IF provider = "mock"
                            THEN MockConstructWebhookEvent(payload, signature)
                            ELSE StripeConstructWebhookEvent(payload, signature,
                                                             webhookSecret)]
    /\ UNCHANGED webhookSecret
    /\ UNCHANGED <<breakerVars, retryVars, stripeVars, keyVars, serviceVars, mockVars>>

\* the deployment sets or unsets STRIPE_WEBHOOK_SECRET
SetWebhookSecret(b) ==
    /\ webhookSecret' = b
    /\ UNCHANGED hook
    /\ UNCHANGED <<breakerVars, retryVars, stripeVars, keyVars, serviceVars, mockVars>>

\* new MockPaymentProvider(): mock.ts lines 23-43
MockFresh ==
    /\ shouldFail = FALSE
    /\ transactions = [id \in Stamps |-> NoSuchTransaction]
    /\ refunds = [id \in Stamps |-> NoSuchRefund]
    /\ mockCall = NoMockCall

WebhookFresh ==
    /\ webhookSecret = TRUE
    /\ hook = NoHook

\* no key derived yet
KeyFresh ==
    /\ keyReq = [i \in KeyPair |-> GoodParams]
    /\ keyOut = [i \in KeyPair |-> NoKey]

\* --------------------------------------------------------- specifications
InitBreaker ==
    /\ \E th \in 1..MaxThreshold, to \in 0..MaxTimeout : BreakerFresh(th, to)
    /\ policy = defaultRetryPolicy
    /\ rpc = "unused"
    /\ RetryFresh
    /\ StripeFresh
    /\ KeyFresh
    /\ MockFresh
    /\ WebhookFresh
    /\ ServiceIdle

InitRetry ==
    /\ BreakerFresh(DefaultThreshold, DefaultTimeout)
    /\ policy \in Policies
    /\ rpc = "start"
    /\ RetryFresh
    /\ StripeFresh
    /\ KeyFresh
    /\ MockFresh
    /\ WebhookFresh
    /\ ServiceIdle

InitStripe ==
    /\ BreakerFresh(StripeThreshold, StripeTimeout)
    /\ policy = defaultRetryPolicy
    /\ rpc = "unused"
    /\ RetryFresh
    /\ StripeFresh
    /\ KeyFresh
    /\ MockFresh
    /\ WebhookFresh
    /\ ServiceIdle

NextStripe ==
    \/ \E c \in Chargers, p \in ChargeInputs : ChargeStart(c, p)
    \/ \E c \in Chargers, resp \in UpstreamResponses : UpstreamRespond(c, resp)
    \/ \E c \in Chargers : ChargeThrows(c)
    \/ StripeTick

SpecStripe == InitStripe /\ [][NextStripe]_vars

\* charge() with every kind of key and an upstream whose request may reject
\* with no error object
InitCharge == InitStripe

NextCharge ==
    \/ \E c \in Chargers, p \in KeyedInputs :
          metrics.totalRequests < MaxCharges /\ ChargeStart(c, p)
    \/ \E c \in Chargers, resp \in UpstreamResponses : UpstreamRespond(c, resp)
    \/ \E c \in Chargers, charged \in BOOLEAN : AttemptRejects(c, charged)
    \/ \E c \in Chargers : ChargeRetryWake(c)

SpecCharge == InitCharge /\ [][NextCharge]_vars

InitKey ==
    /\ BreakerFresh(DefaultThreshold, DefaultTimeout)
    /\ policy = defaultRetryPolicy
    /\ rpc = "unused"
    /\ RetryFresh
    /\ StripeFresh
    /\ keyReq \in [KeyPair -> KeyRequests]
    /\ keyOut = [i \in KeyPair |-> NoKey]
    /\ ServiceIdle
    /\ MockFresh
    /\ WebhookFresh

NextKey == \E i \in KeyPair : DeriveKey(i)

SpecKey == InitKey /\ [][NextKey]_vars

InitService ==
    /\ BreakerFresh(DefaultThreshold, DefaultTimeout)
    /\ policy = defaultRetryPolicy
    /\ rpc = "unused"
    /\ RetryFresh
    /\ StripeFresh
    /\ KeyFresh
    /\ MockFresh
    /\ WebhookFresh
    /\ \E env \in Environments, key \in BOOLEAN : ServiceFresh(env, key)
    /\ healthy \in [ProviderTypes -> BOOLEAN]
    /\ experiment \in [enabled : BOOLEAN, variant : {"control", "mock"}]

NextService ==
    \/ \E type \in PaymentProviderType \cup {"undefined"} : CallGetProvider(type)
    \/ \E type \in PaymentProviderType : SetPrimaryProvider(type)
    \/ \E type \in PaymentProviderType : SetFallbackProvider(type)
    \/ GetHealthyProviderStart
    \/ PrimaryHealthAnswer
    \/ OtherHealthAnswer
    \/ \E cur \in Currencies : GetProviderForCurrencyStart(cur)
    \/ CurrencyHealthAnswer
    \/ GetProviderMetricsStart
    \/ MetricsHealthAnswer
    \/ MetricsAnswer
    \/ \E t \in ProviderTypes : HealthChange(t)

SpecService == InitService /\ [][NextService]_vars

InitMock ==
    /\ BreakerFresh(DefaultThreshold, DefaultTimeout)
    /\ policy = defaultRetryPolicy
    /\ rpc = "unused"
    /\ RetryFresh
    /\ StripeFresh
    /\ KeyFresh
    /\ ServiceIdle
    /\ MockFresh
    /\ WebhookFresh

NextMock ==
    \/ \E captureImmediately \in BOOLEAN, customerId \in MockCustomers :
          MockCharge(captureImmediately, customerId)
    \/ \E customerId \in MockCustomers : MockAuthorize(customerId)
    \/ \E id \in Stamps : MockCapture(id)
    \/ \E id \in Stamps : MockVoid(id)
    \/ \E id \in Stamps : MockRefund(id)
    \/ \E b \in BOOLEAN : SetFailure(b)
    \/ MockTick

SpecMock == InitMock /\ [][NextMock]_vars

InitWebhook ==
    /\ BreakerFresh(DefaultThreshold, DefaultTimeout)
    /\ policy = defaultRetryPolicy
    /\ rpc = "unused"
    /\ RetryFresh
    /\ StripeFresh
    /\ KeyFresh
    /\ ServiceIdle
    /\ MockFresh
    /\ webhookSecret \in BOOLEAN
    /\ hook = NoHook

NextWebhook ==
    \/ \E provider \in ProviderTypes, payload \in Payloads, signature \in Signatures :
          ConstructWebhookEvent(provider, payload, signature)
    \/ \E b \in BOOLEAN : SetWebhookSecret(b)
    \/ \E b \in BOOLEAN : SetFailure(b)

SpecWebhook == InitWebhook /\ [][NextWebhook]_vars

NextRetry ==
    \/ RetryStart
    \/ RetryFnResolve
    \/ \E e \in FnErrors : RetryFnReject(e)
    \/ RetryWake

SpecRetry == InitRetry /\ [][NextRetry]_vars

NextBreaker ==
    \/ \E c \in Callers : ExecuteStart(c)
    \/ \E c \in Callers : FnResolve(c)
    \/ \E c \in Callers : FnReject(c)
    \/ \E c \in Callers, ok \in BOOLEAN : FallbackSettle(c, ok)
    \/ Reset
    \/ Tick

SpecBreaker == InitBreaker /\ [][NextBreaker]_vars

\* time advances, calls keep arriving, and every promise awaited settles
FairBreaker ==
    /\ WF_vars(Tick)
    /\ \A c \in Callers :
          /\ WF_vars(ExecuteStart(c))
          /\ WF_vars(FnResolve(c) \/ FnReject(c))
          /\ WF_vars(\E ok \in BOOLEAN : FallbackSettle(c, ok))

SpecBreakerLive == SpecBreaker /\ FairBreaker

\* ------------------------------------------------------------ claims
InFlight(c) == call[c].pc = "awaitFn"

\* C1: every failed fn() that makes `threshold` consecutive failures leaves the
\* breaker open, and the breaker is never open while fewer than `threshold`
\* calls have failed since its counter was last zero.
C1_OpenAfterThresholdFailures ==
    [][ /\ (streak' = streak + 1 /\ streak' >= threshold) => state' = "open"
        /\ failed' < threshold => state' # "open" ]_vars

C1_Witness == state = "open" /\ streak = threshold /\ failed = threshold /\ threshold > 1

\* C2: a call that found the breaker open before the timeout elapsed never
\* invokes fn; it yields what the fallback yields when one was given, and
\* otherwise throws circuit_breaker_open with retriable = true.
C2_OpenShortCircuits ==
    \A c \in Callers :
        call[c].sawOpen =>
            /\ call[c].admitted = "none"
            /\ call[c].pc # "awaitFn"
            /\ IF HasFallback(c)
               THEN \/ call[c].pc = "awaitFallback"
                    \/ /\ call[c].pc = "done"
                       /\ call[c].outcome.code \in {"fallback_result", "fallback_error"}
               ELSE /\ call[c].pc = "done"
                    /\ call[c].outcome.how = "throw"
                    /\ call[c].outcome.code = "circuit_breaker_open"
                    /\ call[c].outcome.retriable = TRUE

C2_Witness ==
    \E c, d \in Callers :
        /\ call[c].sawOpen /\ ~HasFallback(c) /\ call[c].pc = "done"
        /\ call[d].sawOpen /\ HasFallback(d) /\ call[d].pc = "done"
        /\ call[d].outcome.code = "fallback_result"

\* C3: at most one call admitted while half-open is in flight at any time.
C3_SingleProbe ==
    Cardinality({c \in Callers : InFlight(c) /\ call[c].admitted = "half-open"}) <= 1

\* C4: when a call admitted in the half-open state succeeds, the counter is 0
\* and the state closed; when it fails, the state is open and lastFailureTime
\* is the time of that failure.
C4_HalfOpenOutcome ==
    [][ \A c \in Callers :
          (InFlight(c) /\ call[c].admitted = "half-open" /\ call'[c].pc = "done") =>
             IF call'[c].outcome.how = "return"
             THEN failures' = 0 /\ state' = "closed"
             ELSE state' = "open" /\ lastFailureTime' = now ]_vars

\* what the claims call retryable under policy p: any error that is not a
\* PaymentProviderError, and a PaymentProviderError whose code p lists
RetryableUnder(p, e) == e.kind # "PaymentProviderError" \/ e.code \in p.retryableErrors

AllRetryable == \A i \in 1..Len(errs) : RetryableUnder(policy, errs[i])

NonDecreasing(sq) == \A i \in 1..Len(sq) - 1 : sq[i] <= sq[i + 1]

\* C7: the attempt that fails with a PaymentProviderError whose code is not in
\* policy.retryableErrors is the last one: the call ends at once with that
\* error and no delay follows; when it is the first failure, fn was called
\* exactly once and no delay was taken at all.
C7_NonRetryableFailsAtOnce ==
    \A i \in 1..Len(errs) :
        ~RetryableUnder(policy, errs[i]) =>
            /\ i = Len(errs)
            /\ rpc = "done"
            /\ rOutcome = Throw(errs[i])
            /\ attempts = i
            /\ Len(delays) = i - 1

C7_Witness ==
    /\ policy.maxAttempts >= 2
    /\ errs = << PPE("card_declined") >>
    /\ "card_declined" \notin policy.retryableErrors
    /\ rpc = "done" /\ attempts = 1 /\ delays = << >>

\* C8: fn is never called more than maxAttempts times; a call whose every
\* attempt failed with a retryable error ends only after exactly maxAttempts
\* attempts, throwing the error of the last one; a call that returns returns
\* the value of its last attempt, which is the first that succeeded.
C8_BoundedAttempts ==
    /\ attempts <= policy.maxAttempts
    /\ (rpc = "done" /\ rOutcome.how = "throw" /\ errs # << >> /\ AllRetryable) =>
          /\ attempts = policy.maxAttempts
          /\ Len(errs) = policy.maxAttempts
          /\ rOutcome.error = errs[Len(errs)]
    /\ (rpc = "done" /\ rOutcome.how = "return") =>
          /\ attempts = Len(errs) + 1
          /\ rOutcome.value = attempts

C8_Witness ==
    /\ rpc = "done" /\ rOutcome.how = "throw"
    /\ policy.maxAttempts = 3 /\ attempts = 3
    /\ errs = << PPE("network_error"), OtherError, PPE("network_error") >>
    /\ policy.retryableErrors = {"network_error"}

DelaysAsClaimed ==
    /\ delays # << >> => delays[1] = policy.initialDelay
    /\ NonDecreasing(delays)
    /\ \A i \in 1..Len(delays) : delays[i] <= policy.maxDelay
    /\ (rpc = "done" /\ attempts >= 1) => Len(delays) = attempts - 1

\* C9 as stated: for every policy the delays start at initialDelay, never
\* decrease and are each at most maxDelay, attempts - 1 of them in all.
C9_DelaysEveryPolicy == DelaysAsClaimed

\* C9 amended: the same for every policy with initialDelay <= maxDelay and
\* backoffMultiplier >= 1 (delays are not negative).
C9_DelaysSanePolicy ==
    (policy.initialDelay <= policy.maxDelay /\ policy.backoffMultiplier >= 1)
        => DelaysAsClaimed

C9_Witness ==
    /\ policy.initialDelay < policy.maxDelay /\ policy.backoffMultiplier >= 2
    /\ rpc = "done" /\ attempts = 3 /\ Len(delays) = 2
    /\ delays[1] = policy.initialDelay
    /\ delays[2] = policy.maxDelay
    /\ delays[1] * policy.backoffMultiplier > policy.maxDelay

IsPrefix(a, b) == Len(a) <= Len(b) /\ \A i \in 1..Len(a) : a[i] = b[i]

ShortCircuited(o) ==
    \/ o.how = "throw" /\ o.error.code = "circuit_breaker_open"
    \/ o.how = "return" /\ ~o.result.ok /\ o.result.error.code = "circuit_breaker_open"

\* C5: a charge() that starts after StripeThreshold consecutive charges whose
\* upstream request failed makes no upstream request and ends at once with
\* circuit_breaker_open.
C5_SixthChargeShortCircuits ==
    [][ \A c \in Chargers :
          ( /\ upstreamFailStreak >= StripeThreshold
            /\ charge[c].pc \in {"idle", "done"}
            /\ charge'[c] # charge[c]
            /\ charge'[c].params.defined )
          => /\ charge'[c].pc = "done"
             /\ charge'[c].responses = << >>
             /\ ShortCircuited(charge'[c].outcome) ]_vars

\* C6: no charge() with well-formed parameters ends by throwing: whatever the
\* upstream and the breaker do, the caller gets a Result.
C6_AlwaysAResult ==
    \A c \in Chargers :
        (charge[c].pc = "done" /\ charge[c].params.defined)
            => charge[c].outcome.how = "return"

\* C10: a charge of 1000 GBP whose upstream fails transiently twice and then
\* succeeds ends only after the third request, with Ok(succeeded, 1000 GBP).
C10_FailTwiceThenSucceed ==
    \A c \in Chargers :
        ( /\ charge[c].pc = "done"
          /\ charge[c].params = GoodParams
          /\ charge[c].responses # << >>
          /\ IsPrefix(charge[c].responses, << Transient, Transient, "succeeded" >>) )
        => /\ charge[c].responses = << Transient, Transient, "succeeded" >>
           /\ charge[c].outcome.how = "return"
           /\ charge[c].outcome.result.ok
           /\ charge[c].outcome.result.value.status = "succeeded"
           /\ charge[c].outcome.result.value.amount = 1000
           /\ charge[c].outcome.result.value.currency = "GBP"

\* the content of a request: its field values, whatever the property order
SameContent(a, b) ==
    /\ a.amount = b.amount
    /\ a.currency = b.currency
    /\ a.customerId = b.customerId
    /\ a.idempotencyKey = b.idempotencyKey

BothDerived == \A i \in KeyPair : keyOut[i] # NoKey

\* C12: two requests with the same field values, in whatever order the fields
\* were set, get the same key, and two requests that differ in amount,
\* currency or customer get different keys.
C12_KeyOnContent ==
    BothDerived =>
        (SameContent(keyReq[1], keyReq[2]) <=> keyOut[1] = keyOut[2])

\* C11: all the create requests of one charge() call carry one key, and the
\* upstream, which records a charge once per key, records at most one charge
\* for the call.
C11_OneKeyOneCharge ==
    \A c \in Chargers :
        /\ \A i, j \in 1..Len(charge[c].requests) :
              charge[c].requests[i] = charge[c].requests[j]
        /\ charge[c].recorded <= 1

\* a call that needed three attempts and ended with one charge recorded
C11_Witness ==
    \E c \in Chargers :
        /\ charge[c].pc = "done"
        /\ charge[c].responses = <<"undefined", "undefined", "succeeded">>
        /\ charge[c].recorded = 1
        /\ charge[c].outcome.result.ok

CallerKeyPresent(p) == p.idempotencyKey \notin {"none", ""}

\* C13: every create request of a call carries the caller's key when the
\* caller gave one, and the derived key otherwise.
C13_CallerKeyFirst ==
    \A c \in Chargers : \A i \in 1..Len(charge[c].requests) :
        charge[c].requests[i] =
            IF CallerKeyPresent(charge[c].params)
            THEN Literal(charge[c].params.idempotencyKey)
            ELSE generateIdempotencyKey(charge[c].params)

C13_Witness ==
    \E c \in Chargers :
        /\ charge[c].pc = "done"
        /\ charge[c].params.idempotencyKey = "key_1"
        /\ charge[c].requests = <<Literal("key_1")>>
        /\ upstream = {Literal("key_1")}

\* the resolution order of the claim, the experiment assigning every user of
\* the deployment to experiment.variant
ClaimedProvider(type) ==
    IF experiment.enabled /\ experiment.variant # "control" /\ Registered(experiment.variant)
    THEN ReturnProvider(experiment.variant)
    ELSE IF type # "undefined" /\ Registered(type)
    THEN ReturnProvider(type)
    ELSE IF Registered(primaryProvider)
    THEN ReturnProvider(primaryProvider)
    ELSE IF fallbackProvider # "undefined" /\ Registered(fallbackProvider)
    THEN ReturnProvider(fallbackProvider)
    ELSE ThrowError("No payment provider available")

\* C14: getProvider(type) returns the registered provider of the caller's
\* non-control experiment variant, else the registered requested type, else
\* the registered primary, else the registered fallback, else it fails.
C14_ResolutionOrder ==
    syncCall.op = "getProvider" => syncCall.outcome = ClaimedProvider(syncCall.arg)

\* the health checks a call made
Passed(ac, t) == \E i \in 1..Len(ac.checks) : ac.checks[i] = <<t, TRUE>>
Failed(ac, t) == \E i \in 1..Len(ac.checks) : ac.checks[i] = <<t, FALSE>>
Checked(ac, t) == Passed(ac, t) \/ Failed(ac, t)
PositionOf(t) == CHOOSE i \in 1..Len(providers) : providers[i] = t

\* what the claim says of a getHealthyProvider call that settled as ac while
\* the primary was p and the upstreams were up as in up: a failure means that
\* every registered provider failed the call's check or, unasked, is down
HealthyProviderAsClaimed(ac, p, up) ==
    /\ ac.outcome.how = "return" =>
          LET t == ac.outcome.provider
          IN  /\ Passed(ac, t)
              /\ t # p =>
                    /\ ~Registered(p) \/ Failed(ac, p)
                    /\ \A j \in 1..(PositionOf(t) - 1) :
                          providers[j] # p => Failed(ac, providers[j])
    /\ ac.outcome.how = "throw" =>
          \A t \in ProviderTypes : Registered(t) => (Failed(ac, t) \/ ~up[t])

\* C15: getHealthyProvider returns the primary when it is registered and its
\* health check passes, otherwise the first other provider in registration
\* order whose health check passes, and fails exactly when no registered
\* provider passes its health check (the primary being the one configured
\* when the call was made or the one configured when it settles).
C15_HealthyProvider ==
    [][(asyncCall' # asyncCall /\ asyncCall'.op = "getHealthyProvider"
                               /\ asyncCall'.pc = "done")
          => \/ HealthyProviderAsClaimed(asyncCall', asyncCall'.primary, healthy')
             \/ HealthyProviderAsClaimed(asyncCall', primaryProvider', healthy')]_vars

\* the provider lists the currency
Lists(t, cur) == cur \in {"GBP", "USD", "EUR"}

\* C16: getProviderForCurrency(c) returns the first provider in registration
\* order that lists c and passes its health check, never health-checks or
\* returns a provider that does not list c, and fails exactly when no
\* registered provider lists c and passes.
C16_ProviderForCurrency ==
    (asyncCall.op = "getProviderForCurrency" /\ asyncCall.pc = "done") =>
        /\ \A t \in ProviderTypes : Checked(asyncCall, t) => Lists(t, asyncCall.currency)
        /\ asyncCall.outcome.how = "return" =>
              LET t == asyncCall.outcome.provider
              IN  /\ Registered(t)
                  /\ Lists(t, asyncCall.currency)
                  /\ Passed(asyncCall, t)
                  /\ \A j \in 1..(PositionOf(t) - 1) :
                        Lists(providers[j], asyncCall.currency)
                           => Failed(asyncCall, providers[j]) /\ ~Passed(asyncCall, providers[j])
        /\ asyncCall.outcome.how = "throw" =>
              \A t \in ProviderTypes :
                 (Registered(t) /\ Lists(t, asyncCall.currency)) => Failed(asyncCall, t)

\* the second provider is returned after the first failed its check
C16_Witness ==
    /\ asyncCall.op = "getProviderForCurrency"
    /\ asyncCall.pc = "done"
    /\ asyncCall.currency = "GBP"
    /\ asyncCall.checks = << <<"stripe", FALSE>>, <<"mock", TRUE>> >>
    /\ asyncCall.outcome = ReturnProvider("mock")

\* C17: the configured primary changes only in a successful
\* setPrimaryProvider and the configured fallback only in a successful
\* setFallbackProvider; no other call changes either.
C17_NoSilentPromotion ==
    [][/\ primaryProvider' # primaryProvider =>
             /\ syncCall' = [op |-> "setPrimaryProvider", arg |-> primaryProvider',
                             outcome |-> ReturnProvider("none")]
             /\ asyncCall' = asyncCall
       /\ fallbackProvider' # fallbackProvider =>
             /\ syncCall' = [op |-> "setFallbackProvider", arg |-> fallbackProvider',
                             outcome |-> ReturnProvider("none")]
             /\ asyncCall' = asyncCall]_vars

\* getHealthyProvider returned the alternative to an unhealthy primary, and
\* the primary is still the primary
C17_Witness ==
    /\ asyncCall.op = "getHealthyProvider"
    /\ asyncCall.pc = "done"
    /\ asyncCall.checks = << <<"stripe", FALSE>>, <<"mock", TRUE>> >>
    /\ asyncCall.outcome = ReturnProvider("mock")
    /\ primaryProvider = "stripe"
    /\ ~healthy["stripe"]

\* the charge() call of c settles in this step
Settles(c) == charge'[c] # charge[c] /\ charge'[c].pc = "done"

ReturnedOk(o) == o.how = "return" /\ o.result.ok

\* C18: an operation is tallied as a success when it yields Ok and as a
\* failure when it yields Err, throws or is short-circuited: the step in
\* which a call settles adds one to successfulRequests exactly when the call
\* returned Ok, and successfulRequests never exceeds totalRequests.
C18_TalliedByOutcome ==
    [][/\ \A c \in Chargers :
             Settles(c) =>
                metrics'.successfulRequests =
                   metrics.successfulRequests
                      + (IF ReturnedOk(charge'[c].outcome) THEN 1 ELSE 0)
       /\ metrics'.successfulRequests <= metrics'.totalRequests]_vars

\* C19: constructWebhookEvent with a signature that does not verify returns
\* Err with code webhook_signature_invalid, for every payload and every
\* configuration of the provider.
C19_InvalidSignature ==
    (hook.provider # "none" /\ hook.signature # "valid_signature") =>
        hook.outcome = WebhookErr("webhook_signature_invalid")

\* C20: a refund is created only against a succeeded transaction: refund()
\* on a transaction in another status returns Err and stores no refund.
C20_RefundOnlySucceeded ==
    /\ \A id \in Stamps :
          refunds[id] # NoSuchRefund => refunds[id].transactionStatus = "succeeded"
    /\ (mockCall.op = "refund" /\ mockCall.transactionStatus # "succeeded")
          => ~mockCall.result.ok

\* C21: a captured transaction never becomes cancelled, and a cancelled
\* transaction never becomes succeeded again.
C21_StatusMachine ==
    [][\A id \in Stamps :
          /\ (transactions[id].captured /\ transactions[id].status = "succeeded")
                => transactions'[id].status # "cancelled"
          /\ transactions[id].status = "cancelled"
                => transactions'[id].status # "succeeded"]_vars

\* C22: a stored transaction is never deleted or replaced: it stays under its
\* id with the customer it was created for, and a successful charge stores a
\* transaction under an id that was free.
C22_NeverReplaced ==
    [][\A id \in Stamps :
          transactions[id] # NoSuchTransaction =>
             /\ transactions'[id] # NoSuchTransaction
             /\ transactions'[id].customerId = transactions[id].customerId]_vars

\* a step of reset() that changed the breaker
ResetStep == resetPending' /\ call' = call /\ now' = now /\ vars' # vars

\* the first execute() after a reset() starts
FirstExecuteAfterReset == resetPending /\ ~resetPending'

\* that execute() goes on to invoke fn
InvokesFn == \E c \in Callers : call[c].pc # "awaitFn" /\ call'[c].pc = "awaitFn"

ResetForcesClosed ==
    ResetStep => (state' = "closed" /\ failures' = 0 /\ lastFailureTime' = Undefined)

TimeoutElapsed == now - lastFailureTime > timeout

AdmittedAsProbe(c) == call'[c].pc = "awaitFn" /\ call'[c].admitted = "half-open"

\* C24: the breaker goes from open to half-open only in the step that starts
\* an execute() call with now - lastFailureTime > timeout; every call that
\* starts on an open breaker with now - lastFailureTime > timeout is admitted
\* as a probe; and the breaker stays open forever only if the clock stops
\* within the timeout of the last failure.
C24_OpenToHalfOpen ==
    /\ [][ /\ (state = "open" /\ state' = "half-open") =>
                /\ TimeoutElapsed
                /\ \E c \in Callers : ExecuteStart(c) /\ AdmittedAsProbe(c)
           /\ \A c \in Callers :
                (ExecuteStart(c) /\ state = "open" /\ TimeoutElapsed) =>
                    (state' = "half-open" /\ AdmittedAsProbe(c)) ]_vars
    /\ <>[](state = "open") => <>[](~TimeoutElapsed)

C24_Witness ==
    /\ state = "half-open" /\ now - lastFailureTime = timeout + 1
    /\ \E c \in Callers : call[c].pc = "awaitFn" /\ call[c].admitted = "half-open"
    /\ \E c \in Callers : call[c].sawOpen

\* the charge() call of c settles in this step
ChargeSettles(c) == charge[c].pc # "done" /\ charge'[c].pc = "done"

\* C25: the failure counter of the breaker changes only in the step in which
\* a charge() call settles, and then it goes up by one (the call rejected) or
\* back to 0 (a probe succeeded); the attempts retried inside the call leave
\* it alone, so a call of any number of attempts adds at most 1.
C25_OneOutcomePerCharge ==
    [][ /\ failures' # failures =>
              \E c \in Chargers :
                 /\ ChargeSettles(c)
                 /\ IF charge'[c].outcome.how = "throw"
                    THEN failures' = failures + 1
                    ELSE failures' = 0 /\ state = "half-open"
        /\ \A c \in Chargers :
              (charge[c].pc = "awaitUpstream" /\ charge'[c].pc = "sleeping") =>
                  /\ failures' = failures
                  /\ state' = state ]_vars

C25_Witness ==
    \E c \in Chargers :
        /\ charge[c].pc = "done" /\ charge[c].attempt = defaultRetryPolicy.maxAttempts
        /\ Len(charge[c].responses) = defaultRetryPolicy.maxAttempts
        /\ charge[c].outcome.how = "throw"
        /\ metrics.totalRequests = 1
        /\ failures = 1

\* the upstream answered with a Stripe error, which mapStripeError classifies
ClassifiedRetriable(resp) == MapStripeError(StripeErrorOf(resp)).retriable

\* C26: in a finished charge() call, a request that failed with an error
\* classified retriable = true was followed by another attempt unless it was
\* attempt number maxAttempts, and a request that failed with an error
\* classified retriable = false was the last one.
C26_TransientRetried ==
    \A c \in Chargers :
        charge[c].pc = "done" =>
            \A i \in 1..Len(charge[c].responses) :
                charge[c].responses[i] \in UpstreamResponses \ {"succeeded"} =>
                    IF ClassifiedRetriable(charge[c].responses[i])
                    THEN i < Len(charge[c].responses) \/ i = defaultRetryPolicy.maxAttempts
                    ELSE i = Len(charge[c].responses)

\* C27: whenever the breaker is open or half-open its failure counter is at
\* least the threshold, and every step that lowers the counter leaves the
\* breaker closed.
C27_CounterAtLeastThreshold ==
    /\ [](state \in {"open", "half-open"} => failures >= threshold)
    /\ [][failures' < failures => state' = "closed"]_vars

C27_Witness ==
    /\ state = "half-open" /\ failures = threshold + 1 /\ threshold > 1
    /\ \E c \in Callers : call[c].pc = "awaitFn" /\ call[c].admitted = "half-open"
    /\ \E c \in Callers : call[c].outcome = CircuitOpenError

\* fn() of a call in flight resolved in this step
FnSucceeds == \E c \in Callers : InFlight(c) /\ call'[c].pc = "done"
                                   /\ call'[c].outcome.how = "return"

\* C28: a call that succeeds while the breaker is closed leaves the failure
\* counter and the state as they are; the counter goes down only when a call
\* succeeds on a half-open breaker or reset() is called; and the failure that
\* makes `threshold` failed calls since the counter was last zero leaves the
\* breaker open, whatever successes came in between.
C28_ClosedSuccessKeepsCounter ==
    [][ /\ (FnSucceeds /\ state = "closed") => (failures' = failures /\ state' = "closed")
        /\ failures' < failures => ((FnSucceeds /\ state = "half-open") \/ ResetStep)
        /\ (failed' = failed + 1 /\ failed' >= threshold) => state' = "open" ]_vars

C28_Witness ==
    /\ state = "open" /\ failures = threshold /\ failed = threshold
    /\ streak > 0 /\ streak < threshold
    /\ \E c \in Callers : call[c].pc = "done" /\ call[c].outcome.how = "return"

\* C29: under a policy with maxAttempts <= 0 fn is never called and the call
\* ends throwing the undefined value of the unassigned lastError; under a
\* policy with maxAttempts >= 1 a finished call has called fn at least once,
\* and when it throws it throws an error that fn threw.
C29_ZeroAttempts ==
    /\ policy.maxAttempts <= 0 =>
          /\ attempts = 0 /\ errs = << >>
          /\ rpc = "done" => rOutcome = Throw(UndefinedError)
    /\ (policy.maxAttempts >= 1 /\ rpc = "done") =>
          /\ attempts >= 1
          /\ rOutcome.how = "throw" =>
                /\ errs # << >>
                /\ rOutcome.error = errs[Len(errs)]
                /\ rOutcome.error \in FnErrors

C29_Witness ==
    /\ policy.maxAttempts = 0 /\ rpc = "done"
    /\ rOutcome = Throw(UndefinedError) /\ attempts = 0

\* the keys of the registry
RegistryKeys == {providers[i] : i \in 1..Len(providers)}

\* C30: setPrimaryProvider(t) and setFallbackProvider(t) with t not in the
\* registry throw and leave primary and fallback as they were; a fallback,
\* once configured, names a provider of the registry; and getProvider()
\* throws only when the registry is empty.
C30_SettersRejectUnregistered ==
    /\ [][\A t \in PaymentProviderType \ RegistryKeys :
             (SetPrimaryProvider(t) \/ SetFallbackProvider(t)) =>
                 /\ syncCall'.outcome.how = "throw"
                 /\ primaryProvider' = primaryProvider
                 /\ fallbackProvider' = fallbackProvider]_vars
    /\ [](fallbackProvider # "undefined" => fallbackProvider \in RegistryKeys)
    /\ []((syncCall.op = "getProvider" /\ syncCall.outcome.how = "throw")
            => providers = << >>)

C30_Witness ==
    /\ syncCall.op = "setFallbackProvider" /\ syncCall.arg = "square"
    /\ syncCall.outcome.how = "throw"
    /\ fallbackProvider = "mock" /\ primaryProvider = "mock"
    /\ providers = <<"stripe", "mock">>

====
